---- MODULE Spec2Model ----
(***************************************************************************)
(* A model of the admin classes of src/entities/admin.py.                  *)
(*                                                                         *)
(* The database tables the handlers act on are the state: the Villain      *)
(* table, the Hero table and (for OriginAdmin) the origin foreign keys of  *)
(* both.  Every request handled by an admin class is one action: the       *)
(* framework's form save and the handler the class overrides are taken     *)
(* together, as Django runs them within one request.                       *)
(*                                                                         *)
(* Three specifications, one per admin class family:                       *)
(*   SpecVillain  VillainAdmin   (add, change, "_make-unique", delete)     *)
(*   SpecHero     HeroAdmin      (forms, bulk updates, filter, CSV)        *)
(*   SpecOrigin   OriginAdmin    (annotated hero / villain counts)         *)
(***************************************************************************)
EXTENDS Integers, Sequences, FiniteSets, TLC

VARIABLES
    villains,       \* Villain table: pk -> [name, is_unique]
    villain_seq,    \* last primary key the Villain table handed out
    heroes,         \* Hero table: pk -> [name, is_immortal, benevolence_factor, added_by]
    hero_seq,       \* last primary key the Hero table handed out
    hero_created,   \* history: pk -> [name, by] as of the request that created the hero
    hero_fk,        \* Hero table projected on its origin column: pk -> origin
    villain_fk,     \* Villain table projected on its origin column: pk -> origin
    last            \* the last request handled and its response

vars == <<villains, villain_seq, heroes, hero_seq, hero_created, hero_fk, villain_fk, last>>

\* ---------------------------------------------------------------- bounds
MaxVillains == 3
MaxHeroes == 2
MaxOriginRows == 3

Names == {"a", "b"}
Users == {"u1", "u2"}
Origins == {"o1", "o2"}

\* ------------------------------------------------------- request / response
NoResponse ==
    [kind |-> "none", location |-> "", message |-> "", template |-> "",
     form |-> "", content_type |-> "", disposition |-> "", exc |-> "", rows |-> <<>>]

Redirect(to, msg) ==
    [NoResponse EXCEPT !.kind = "redirect", !.location = to, !.message = msg]

Render(tpl, form) ==
    [NoResponse EXCEPT !.kind = "render", !.template = tpl, !.form = form]

Raised(e) ==
    [NoResponse EXCEPT !.kind = "error", !.exc = e]

NoRequest ==
    [op |-> "init", pk |-> 0, user |-> "", value |-> "", selected |-> {},
     queryset |-> {}, deleted |-> {}, readonly |-> {}, response |-> NoResponse]

\* ================================================================ VillainAdmin
\* VillainAdmin does not override get_queryset: every row of the table.
VillainQueryset == DOMAIN villains

\* .filter(name=obj.name).exclude(pk=obj.id) over a table
MutMatchingNoNameFilter(table, name, pk) ==
    {v \in DOMAIN table : v # pk}

MatchingNamesExceptThis(table, name, pk) ==
    {v \in DOMAIN table : table[v].name = name /\ v # pk}

\* queryset.delete()
DeleteRows(table, pks) ==
    [v \in (DOMAIN table) \ pks |-> table[v]]

\* obj.save() of an in-memory object with primary key pk
SaveRow(table, pk, obj) ==
    [v \in (DOMAIN table) \cup {pk} |-> IF v = pk THEN obj ELSE table[v]]

\* response_change(request, obj) on the table as the form save left it;
\* the result is <<table, response, rows deleted>>
ResponseChange(table, pk, make_unique) ==
    IF make_unique
    THEN LET obj == table[pk]
             gone == MatchingNamesExceptThis(table, obj.name, pk)
             kept == DeleteRows(table, gone)
             now == [obj EXCEPT !.is_unique = TRUE]
         IN <<SaveRow(kept, pk, now), Redirect(".", "This villain is now unique"), gone>>
    ELSE <<table, Redirect("../", ""), {}>>

\* POST of the add form: a new row.  The form submits is_unique unticked, so
\* that the flag is only ever set by "_make-unique".
VillainAdd(name) ==
    /\ villain_seq < MaxVillains
    /\ villain_seq' = villain_seq + 1
    /\ villains' = SaveRow(villains, villain_seq + 1, [name |-> name, is_unique |-> FALSE])
    /\ last' = [NoRequest EXCEPT !.op = "villain_add", !.pk = villain_seq + 1,
                                 !.value = name, !.response = Redirect("../", "")]
    /\ UNCHANGED <<heroes, hero_seq, hero_created, hero_fk, villain_fk>>

\* POST of the change form: the form saves obj, then response_change runs
VillainChange(pk, name, make_unique) ==
    /\ pk \in VillainQueryset
    /\ LET saved == SaveRow(villains, pk, [villains[pk] EXCEPT !.name = name])
           done == ResponseChange(saved, pk, make_unique)
       IN /\ villains' = done[1]
          /\ last' = [NoRequest EXCEPT
                          !.op = IF make_unique THEN "make_unique" ELSE "villain_change",
                          !.pk = pk, !.value = name, !.deleted = done[3],
                          !.response = done[2]]
    /\ UNCHANGED <<villain_seq, heroes, hero_seq, hero_created, hero_fk, villain_fk>>

\* the admin's delete view
VillainDelete(pk) ==
    /\ pk \in VillainQueryset
    /\ villains' = DeleteRows(villains, {pk})
    /\ last' = [NoRequest EXCEPT !.op = "villain_delete", !.pk = pk, !.deleted = {pk},
                                 !.response = Redirect("../", "")]
    /\ UNCHANGED <<villain_seq, heroes, hero_seq, hero_created, hero_fk, villain_fk>>

\* ================================================================ HeroAdmin
\* the columns of the Hero table the handlers read or write
HeroFields == {"name", "is_immortal", "benevolence_factor", "added_by"}

\* the same, in the order of the model's _meta.fields
HeroFieldList == <<"name", "is_immortal", "benevolence_factor", "added_by">>

Factors == {75, 76}

HeroForms == [name : Names, is_immortal : BOOLEAN, benevolence_factor : Factors]

\* HeroAdmin.readonly_fields
readonly_fields == {"headshot_image", "added_on"}

\* HeroAdmin.exclude
exclude == {"added_by"}

\* HeroAdmin.get_readonly_fields(request, obj); obj is the primary key of the
\* object the form is for, 0 for obj = None (the add form)
MutGetReadonlyFieldsNone(obj) == {}

get_readonly_fields(obj) ==
    IF obj # 0 THEN {"name"} ELSE {}

\* the fields the admin form binds: the model's, less exclude, less the read-only ones
FormFields(obj) ==
    (HeroFields \ exclude) \ get_readonly_fields(obj)

\* form.save(commit=False): the bound fields are taken from the POST data
Construct(old, form, fields) ==
    [f \in DOMAIN old |-> IF f \in fields THEN form[f] ELSE old[f]]

\* a Hero() before the form fills it in
NewHero ==
    [name |-> "", is_immortal |-> FALSE, benevolence_factor |-> 0, added_by |-> ""]

\* HeroAdmin.save_model up to the call of super().save_model; pk is obj.pk, 0 for None
MutSaveModelAlways(user, obj, pk) ==
    [obj EXCEPT !.added_by = user]

save_model(user, obj, pk) ==
    IF pk = 0 THEN [obj EXCEPT !.added_by = user] ELSE obj

\* queryset.update(field=val)
MutUpdateAll(table, pks, field, val) ==
    [h \in DOMAIN table |-> [table[h] EXCEPT ![field] = val]]

Update(table, pks, field, val) ==
    [h \in DOMAIN table |-> IF h \in pks THEN [table[h] EXCEPT ![field] = val] ELSE table[h]]

\* HeroAdmin.is_very_benevolent(obj)
MutIsVeryBenevolentGe(obj) ==
    obj.benevolence_factor >= 75

is_very_benevolent(obj) ==
    obj.benevolence_factor > 75

\* the values self.value() can give: a lookup, nothing, or any other string of the URL
FilterValues == {"Yes", "No", "", "maybe"}

\* IsVeryBenevolentFilter.queryset(request, queryset)
IsVeryBenevolentFilter_queryset(value, qs) ==
    IF value = "Yes"
    THEN {h \in qs : heroes[h].benevolence_factor > 75}
    ELSE IF value = "No"
         THEN {h \in qs : ~(heroes[h].benevolence_factor > 75)}
         ELSE qs

\* POST of the add form
HeroAdd(user, form) ==
    /\ hero_seq < MaxHeroes
    /\ LET pk == hero_seq + 1
           ro == get_readonly_fields(0)
           obj == save_model(user, Construct(NewHero, form, FormFields(0)), 0)
       IN /\ heroes' = SaveRow(heroes, pk, obj)
          /\ hero_seq' = pk
          /\ hero_created' = SaveRow(hero_created, pk, [name |-> obj.name, by |-> user])
          /\ last' = [NoRequest EXCEPT !.op = "hero_add", !.pk = pk, !.user = user,
                                       !.value = form.name, !.readonly = ro,
                                       !.response = Redirect("../", "")]
    /\ UNCHANGED <<villains, villain_seq, hero_fk, villain_fk>>

\* POST of the change form of hero pk
HeroChange(user, pk, form) ==
    /\ pk \in DOMAIN heroes
    /\ LET ro == get_readonly_fields(pk)
           obj == save_model(user, Construct(heroes[pk], form, FormFields(pk)), pk)
       IN /\ heroes' = SaveRow(heroes, pk, obj)
          /\ last' = [NoRequest EXCEPT !.op = "hero_change", !.pk = pk, !.user = user,
                                       !.value = form.name, !.readonly = ro,
                                       !.response = Redirect("../", "")]
    /\ UNCHANGED <<villains, villain_seq, hero_seq, hero_created, hero_fk, villain_fk>>

\* the admin's delete view
HeroDelete(pk) ==
    /\ pk \in DOMAIN heroes
    /\ heroes' = DeleteRows(heroes, {pk})
    /\ last' = [NoRequest EXCEPT !.op = "hero_delete", !.pk = pk, !.deleted = {pk},
                                 !.response = Redirect("../", "")]
    /\ UNCHANGED <<villains, villain_seq, hero_seq, hero_created, hero_fk, villain_fk>>

\* HeroAdmin.set_immortal
set_immortal ==
    /\ heroes' = Update(heroes, DOMAIN heroes, "is_immortal", TRUE)
    /\ last' = [NoRequest EXCEPT !.op = "set_immortal", !.selected = DOMAIN heroes,
                                 !.response = Redirect("../", "All heroes are now immortal")]
    /\ UNCHANGED <<villains, villain_seq, hero_seq, hero_created, hero_fk, villain_fk>>

\* HeroAdmin.set_mortal
set_mortal ==
    /\ heroes' = Update(heroes, DOMAIN heroes, "is_immortal", FALSE)
    /\ last' = [NoRequest EXCEPT !.op = "set_mortal", !.selected = DOMAIN heroes,
                                 !.response = Redirect("../", "All heroes are now mortal")]
    /\ UNCHANGED <<villains, villain_seq, hero_seq, hero_created, hero_fk, villain_fk>>

\* HeroAdmin.mark_immortal on the rows ticked in the change list
mark_immortal(selected) ==
    /\ selected # {}
    /\ selected \subseteq DOMAIN heroes
    /\ heroes' = Update(heroes, selected, "is_immortal", TRUE)
    /\ last' = [NoRequest EXCEPT !.op = "mark_immortal", !.selected = selected,
                                 !.response = Redirect(".", "")]
    /\ UNCHANGED <<villains, villain_seq, hero_seq, hero_created, hero_fk, villain_fk>>

\* the change list with ?is_very_benevolent=value
HeroChangelist(value) ==
    /\ last' = [NoRequest EXCEPT
                    !.op = "hero_changelist", !.value = value,
                    !.queryset = IsVeryBenevolentFilter_queryset(value, DOMAIN heroes),
                    !.response = Render("entities/heroes_changelist.html", "")]
    /\ UNCHANGED <<villains, villain_seq, heroes, hero_seq, hero_created, hero_fk, villain_fk>>

\* ---------------------------------------------------------------- CSV
\* the attributes an Options object (model._meta) has, as far as the export reads them
OptionsAttributes == {"app_label", "model_name", "fields", "concrete_fields", "pk"}

\* the kinds of object Python can call; request.FILES is a MultiValueDict
CallableKinds == {"function", "method", "class"}

\* str() of the values csv.writer writes
BoolStr(b) == IF b THEN "True" ELSE "False"

Digits == <<"0", "1", "2", "3", "4", "5", "6", "7", "8", "9">>

RECURSIVE IntStr(_)
IntStr(n) ==
    IF n < 10 THEN Digits[n + 1] ELSE IntStr(n \div 10) \o Digits[(n % 10) + 1]

Cell(obj, f) ==
    IF f = "is_immortal" THEN BoolStr(obj[f])
    ELSE IF f = "benevolence_factor" THEN IntStr(obj[f])
    ELSE obj[f]

\* the action's queryset: the ticked rows in the change list's order, which
\* without an ordering of its own is by descending primary key
RECURSIVE QuerysetOf(_)
QuerysetOf(selected) ==
    IF selected = {} THEN <<>>
    ELSE LET m == CHOOSE x \in selected : \A y \in selected : y <= x
         IN <<m>> \o QuerysetOf(selected \ {m})

\* ExportCsvMixin.export_as_csv(request, queryset) for the Hero model: the
\* response, or the exception that leaves the handler
export_as_csv(queryset) ==
    IF "field" \notin OptionsAttributes
    THEN Raised("AttributeError")
    ELSE LET field_names == HeroFieldList
             row(pk) == [i \in 1..Len(field_names) |-> Cell(heroes[pk], field_names[i])]
         IN [NoResponse EXCEPT
                !.kind = "csv", !.content_type = "text/csv",
                !.disposition = "attachment; filename=entities.hero.csv",
                !.rows = <<field_names>> \o [i \in 1..Len(queryset) |-> row(queryset[i])]]

\* HeroAdmin.import_csv(request): the response, or the exception that leaves it
import_csv(method) ==
    IF method = "POST"
    THEN IF "MultiValueDict" \notin CallableKinds
         THEN Raised("TypeError")
         ELSE Redirect("..", "Your csv file has been imported")
    ELSE Render("admin/csv_form.html", "CsvImportForm")

\* the "Export Selected" action on the rows ticked in the change list
HeroExportCsv(selected) ==
    /\ selected # {}
    /\ selected \subseteq DOMAIN heroes
    /\ last' = [NoRequest EXCEPT !.op = "export_as_csv", !.selected = selected,
                                 !.response = export_as_csv(QuerysetOf(selected))]
    /\ UNCHANGED <<villains, villain_seq, heroes, hero_seq, hero_created, hero_fk, villain_fk>>

\* a request to import-csv/
HeroImportCsv(method) ==
    /\ last' = [NoRequest EXCEPT !.op = "import_csv", !.value = method,
                                 !.response = import_csv(method)]
    /\ UNCHANGED <<villains, villain_seq, heroes, hero_seq, hero_created, hero_fk, villain_fk>>

\* ================================================================ OriginAdmin
\* The counts read one column of the Hero and of the Villain table, the origin
\* foreign key; hero_fk and villain_fk are the two tables projected on it.

\* origin LEFT OUTER JOIN hero LEFT OUTER JOIN villain, the rows of one origin
\* as <<hero pk, villain pk>>; 0 is the NULL of an origin without such a row
JoinRows(origin) ==
    LET hs == {h \in DOMAIN hero_fk : hero_fk[h] = origin}
        vs == {v \in DOMAIN villain_fk : villain_fk[v] = origin}
    IN (IF hs = {} THEN {0} ELSE hs) \X (IF vs = {} THEN {0} ELSE vs)

\* Count(column, distinct=...) over the rows of one group: NULLs are not counted
MutCountNotDistinct(rows, col, distinct) ==
    Cardinality({r \in rows : r[col] # 0})

Count(rows, col, distinct) ==
    IF distinct
    THEN Cardinality({r[col] : r \in rows} \ {0})
    ELSE Cardinality({r \in rows : r[col] # 0})

\* OriginAdmin.get_queryset: every origin, annotated
OriginAdmin_get_queryset ==
    {[name |-> o,
      hero_count_ |-> Count(JoinRows(o), 1, TRUE),
      villain_count_ |-> Count(JoinRows(o), 2, TRUE)] : o \in Origins}

\* OriginAdmin.hero_count(obj), OriginAdmin.villain_count(obj)
hero_count(obj) == obj.hero_count_

villain_count(obj) == obj.villain_count_

\* a hero is saved with an origin: created, or moved to another origin
OriginHeroSave(pk, origin) ==
    /\ hero_fk' = SaveRow(hero_fk, pk, origin)
    /\ last' = [NoRequest EXCEPT !.op = "hero_save", !.pk = pk, !.value = origin]
    /\ UNCHANGED <<villains, villain_seq, heroes, hero_seq, hero_created, villain_fk>>

OriginHeroDelete(pk) ==
    /\ pk \in DOMAIN hero_fk
    /\ hero_fk' = DeleteRows(hero_fk, {pk})
    /\ last' = [NoRequest EXCEPT !.op = "hero_delete", !.pk = pk, !.deleted = {pk}]
    /\ UNCHANGED <<villains, villain_seq, heroes, hero_seq, hero_created, villain_fk>>

\* a villain is saved with an origin
OriginVillainSave(pk, origin) ==
    /\ villain_fk' = SaveRow(villain_fk, pk, origin)
    /\ last' = [NoRequest EXCEPT !.op = "villain_save", !.pk = pk, !.value = origin]
    /\ UNCHANGED <<villains, villain_seq, heroes, hero_seq, hero_created, hero_fk>>

OriginVillainDelete(pk) ==
    /\ pk \in DOMAIN villain_fk
    /\ villain_fk' = DeleteRows(villain_fk, {pk})
    /\ last' = [NoRequest EXCEPT !.op = "villain_delete", !.pk = pk, !.deleted = {pk}]
    /\ UNCHANGED <<villains, villain_seq, heroes, hero_seq, hero_created, hero_fk>>

\* the Origin change list: list_display over the annotated queryset
OriginChangelist ==
    /\ last' = [NoRequest EXCEPT
                    !.op = "origin_changelist",
                    !.queryset = {<<o.name, hero_count(o), villain_count(o)>> :
                                     o \in OriginAdmin_get_queryset},
                    !.response = Render("admin/change_list.html", "")]
    /\ UNCHANGED <<villains, villain_seq, heroes, hero_seq, hero_created, hero_fk, villain_fk>>

Empty == [x \in {} |-> 0]

Init ==
    /\ villains = Empty
    /\ villain_seq = 0
    /\ heroes = Empty
    /\ hero_seq = 0
    /\ hero_created = Empty
    /\ hero_fk = Empty
    /\ villain_fk = Empty
    /\ last = NoRequest

NextVillain ==
    \/ \E name \in Names : VillainAdd(name)
    \/ \E pk \in 1..MaxVillains, name \in Names, mu \in BOOLEAN : VillainChange(pk, name, mu)
    \/ \E pk \in 1..MaxVillains : VillainDelete(pk)

SpecVillain == Init /\ [][NextVillain]_vars

NextHero ==
    \/ \E user \in Users, form \in HeroForms : HeroAdd(user, form)
    \/ \E user \in Users, pk \in 1..MaxHeroes, form \in HeroForms : HeroChange(user, pk, form)
    \/ \E pk \in 1..MaxHeroes : HeroDelete(pk)
    \/ set_immortal
    \/ set_mortal
    \/ \E selected \in SUBSET (1..MaxHeroes) : mark_immortal(selected)
    \/ \E value \in FilterValues : HeroChangelist(value)
    \/ \E selected \in SUBSET (1..MaxHeroes) : HeroExportCsv(selected)
    \/ \E method \in {"GET", "POST"} : HeroImportCsv(method)

SpecHero == Init /\ [][NextHero]_vars

NextOrigin ==
    \/ \E pk \in 1..MaxOriginRows, origin \in Origins : OriginHeroSave(pk, origin)
    \/ \E pk \in 1..MaxOriginRows : OriginHeroDelete(pk)
    \/ \E pk \in 1..MaxOriginRows, origin \in Origins : OriginVillainSave(pk, origin)
    \/ \E pk \in 1..MaxOriginRows : OriginVillainDelete(pk)
    \/ OriginChangelist

SpecOrigin == Init /\ [][NextOrigin]_vars

\* ---------------------------------------------------------------- C1
\* C1: a change request with "_make-unique" leaves obj in the table with
\* is_unique = TRUE, leaves no other villain with obj's name, and leaves every
\* villain whose name differs from obj's name in the table, unchanged.
C1_MakeUniqueDeletesDuplicates ==
    [][last'.op = "make_unique" =>
        LET obj == last'.pk IN
        /\ obj \in DOMAIN villains'
        /\ villains'[obj].is_unique = TRUE
        /\ villains'[obj].name = last'.value
        /\ \A v \in (DOMAIN villains') \ {obj} : villains'[v].name # villains'[obj].name
        /\ \A v \in (DOMAIN villains) \ {obj} :
              villains[v].name # villains'[obj].name
                  => v \in DOMAIN villains' /\ villains'[v] = villains[v]
        /\ last'.response = Redirect(".", "This villain is now unique")]_vars

\* a "_make-unique" that deleted a duplicate and kept a villain of another name
C1_Witness ==
    /\ last.op = "make_unique"
    /\ last.deleted # {}
    /\ \E v \in DOMAIN villains : villains[v].name # villains[last.pk].name

\* ---------------------------------------------------------------- C7
\* C7: in every reachable state a villain with is_unique = TRUE has no other
\* villain with the same name.
C7_UniqueFlagMeansNoDuplicate ==
    \A v \in DOMAIN villains : villains[v].is_unique =>
        \A w \in (DOMAIN villains) \ {v} : villains[w].name # villains[v].name

\* ---------------------------------------------------------------- C2
\* C2: for every queryset, "Yes" gives exactly the rows with
\* benevolence_factor > 75, "No" exactly the others (a row at 75 among them),
\* any other value the queryset itself, and "Yes" gives exactly the heroes whose
\* is_very_benevolent column is True.
C2_FilterIsThreshold ==
    \A qs \in SUBSET DOMAIN heroes :
        LET yes == IsVeryBenevolentFilter_queryset("Yes", qs)
            no == IsVeryBenevolentFilter_queryset("No", qs)
        IN /\ \A h \in qs : h \in yes <=> heroes[h].benevolence_factor > 75
           /\ yes \subseteq qs
           /\ no = qs \ yes
           /\ \A h \in qs : heroes[h].benevolence_factor = 75 => h \in no
           /\ \A value \in FilterValues \ {"Yes", "No"} :
                 IsVeryBenevolentFilter_queryset(value, qs) = qs
           /\ yes = {h \in qs : is_very_benevolent(heroes[h])}

\* the change list filtered by "No" shows a hero at 75 and leaves one out
C2_Witness ==
    /\ last.op = "hero_changelist"
    /\ last.value = "No"
    /\ \E h \in last.queryset : heroes[h].benevolence_factor = 75
    /\ (DOMAIN heroes) \ last.queryset # {}

\* ---------------------------------------------------------------- C3
\* C3: export_as_csv answers with a text/csv attachment whose first row is the
\* model's field names, followed by one row per selected object in queryset
\* order holding the object's values for those fields.
C3_ExportReturnsCsv ==
    last.op = "export_as_csv" =>
        LET qs == QuerysetOf(last.selected)
            rows == last.response.rows
        IN /\ last.response.kind = "csv"
           /\ last.response.content_type = "text/csv"
           /\ Len(rows) = Len(qs) + 1
           /\ rows[1] = HeroFieldList
           /\ \A i \in 1..Len(qs) :
                 rows[i + 1] = [j \in 1..Len(HeroFieldList) |->
                                    Cell(heroes[qs[i]], HeroFieldList[j])]

\* ---------------------------------------------------------------- C4
\* C4: set_immortal, set_mortal and mark_immortal keep the set of heroes and
\* every field but is_immortal; set_immortal leaves every hero immortal,
\* set_mortal every hero mortal, mark_immortal the selected heroes immortal and
\* the others as they were.
C4_BulkUpdatesOnlyIsImmortal ==
    [][last'.op \in {"set_immortal", "set_mortal", "mark_immortal"} =>
        /\ DOMAIN heroes' = DOMAIN heroes
        /\ \A h \in DOMAIN heroes :
              \A f \in HeroFields \ {"is_immortal"} : heroes'[h][f] = heroes[h][f]
        /\ last'.op = "set_immortal" => \A h \in DOMAIN heroes : heroes'[h].is_immortal = TRUE
        /\ last'.op = "set_mortal" => \A h \in DOMAIN heroes : heroes'[h].is_immortal = FALSE
        /\ last'.op = "mark_immortal" =>
              \A h \in DOMAIN heroes :
                  heroes'[h].is_immortal =
                      IF h \in last'.selected THEN TRUE ELSE heroes[h].is_immortal]_vars

\* mark_immortal ran on some heroes and a mortal hero outside the selection remains
C4_Witness ==
    /\ last.op = "mark_immortal"
    /\ \E h \in (DOMAIN heroes) \ last.selected : ~heroes[h].is_immortal

\* ---------------------------------------------------------------- C5
\* C5: every origin of the annotated queryset has hero_count = the number of
\* heroes of that origin and villain_count = the number of villains of it.
C5_CountsPerOrigin ==
    /\ {o.name : o \in OriginAdmin_get_queryset} = Origins
    /\ \A o \in OriginAdmin_get_queryset :
          /\ hero_count(o) = Cardinality({h \in DOMAIN hero_fk : hero_fk[h] = o.name})
          /\ villain_count(o) = Cardinality({v \in DOMAIN villain_fk : villain_fk[v] = o.name})

\* the change list shows an origin with several heroes and several villains,
\* and an origin with none of one kind
C5_Witness ==
    /\ last.op = "origin_changelist"
    /\ \E r \in last.queryset : r[2] >= 2 /\ r[3] >= 2
    /\ \E r \in last.queryset : r[2] = 0 \/ r[3] = 0

\* ---------------------------------------------------------------- C6
\* C6: import_csv answers a POST with the message "Your csv file has been
\* imported" and a redirect to "..", any other request with the upload form,
\* and raises no error.
C6_ImportCsvByMethod ==
    last.op = "import_csv" =>
        /\ last.response.kind # "error"
        /\ last.value = "POST" =>
              last.response = Redirect("..", "Your csv file has been imported")
        /\ last.value # "POST" =>
              last.response = Render("admin/csv_form.html", "CsvImportForm")

\* ---------------------------------------------------------------- C8
\* C8: every hero's added_by is the user whose request created it, whoever
\* edited it since.
C8_AddedByIsCreator ==
    \A h \in DOMAIN heroes : heroes[h].added_by = hero_created[h].by

\* a hero was just edited by a user who did not create it
C8_Witness ==
    /\ last.op = "hero_change"
    /\ last.pk \in DOMAIN heroes
    /\ last.user # hero_created[last.pk].by

\* ---------------------------------------------------------------- C9
\* C9: the change form has "name" read-only, the add form has not, and a
\* hero's name stays the one it was created with.
C9_NameFixedAfterCreation ==
    /\ last.op = "hero_change" => "name" \in last.readonly
    /\ last.op = "hero_add" => "name" \notin last.readonly
    /\ \A h \in DOMAIN heroes : heroes[h].name = hero_created[h].name

\* a change request that submitted another name for the hero
C9_Witness ==
    /\ last.op = "hero_change"
    /\ last.pk \in DOMAIN heroes
    /\ last.value # hero_created[last.pk].name

\* ---------------------------------------------------------------- C10
\* C10: the read-only fields of the add form and of the change form contain
\* "headshot_image" and "added_on".
C10_ReadonlyFieldsShown ==
    last.op \in {"hero_add", "hero_change"} => readonly_fields \subseteq last.readonly

====
